---- MODULE Spec2Model ----
(***************************************************************************)
(* Model of the troubleshooting extension (src/src/index.tsx).             *)
(*                                                                         *)
(* The state is the React state of the Command component (activeTab,       *)
(* isLoading, troubleshootingData), the text area of the editor form, the  *)
(* host's navigation stack of pushed TroubleshootingStep frames, the       *)
(* LocalStorage slot "troubleshootingData", the LocalStorage requests in   *)
(* flight and the toasts shown so far.                                     *)
(*                                                                         *)
(* JavaScript values are modelled structurally.  A JS string is a          *)
(* sequence of tokens (atomic chunks of characters); the literal           *)
(* "Solution: " is always a token of its own.  A JSON value is a record    *)
(* of one shape [t, s, k, a]: t is the kind, s the tokens of a string, k   *)
(* the keys of an object in insertion order and a the elements of an       *)
(* array or the property values of an object.                              *)
(***************************************************************************)
EXTENDS Integers, Sequences, FiniteSets, TLC

\* ------------------------------------------------------------------------
\* Bounds
\* ------------------------------------------------------------------------
\* editor submissions per session
MaxSubmits == 1
\* pushed traversal frames on the navigation stack
MaxDepth == 3

\* ------------------------------------------------------------------------
\* JavaScript / JSON values
\* ------------------------------------------------------------------------
JUndef == [t |-> "undef", s |-> <<>>, k |-> <<>>, a |-> <<>>]
JNull == [t |-> "null", s |-> <<>>, k |-> <<>>, a |-> <<>>]
JStr(tokens) == [t |-> "str", s |-> tokens, k |-> <<>>, a |-> <<>>]
JArr(elems) == [t |-> "arr", s |-> <<>>, k |-> <<>>, a |-> elems]
JObj(keys, vals) == [t |-> "obj", s |-> <<>>, k |-> keys, a |-> vals]

\* a one-token string, used for property keys and identifiers
K(x) == <<x>>

\* JS truthiness of a value
Truthy(v) ==
    CASE v.t = "undef" -> FALSE
      [] v.t = "null" -> FALSE
      [] v.t = "str" -> v.s # <<>>
      [] OTHER -> TRUE

\* v[key] raises a TypeError exactly when v is null or undefined
CanRead(v) == v.t \notin {"null", "undef"}

\* v[key] for a readable v: the property of an object, undefined otherwise
\* (the keys used here are never an index or "length" of a string or array)
Get(v, key) ==
    IF v.t = "obj" /\ \E i \in 1..Len(v.k) : v.k[i] = key
    THEN v.a[CHOOSE i \in 1..Len(v.k) : v.k[i] = key]
    ELSE JUndef

\* ------------------------------------------------------------------------
\* The built-in default graph
\* ------------------------------------------------------------------------
Answer(text, next, icon) ==
    JObj(<<K("text"), K("nextId"), K("icon")>>, <<JStr(text), next, JStr(K(icon))>>)

Step(id, question, answers) ==
    JObj(<<K("id"), K("question"), K("answers")>>,
         <<JStr(K(id)), JStr(K(question)), JArr(answers)>>)

Leaf(id, question, text, icon) == Step(id, question, <<Answer(text, JNull, icon)>>)

initialTroubleshootingData ==
    JObj(<<K("start"), K("not-starting"), K("running-slow"), K("crashed"),
           K("log-errors"), K("find-logs"), K("no-logs"), K("high-cpu"),
           K("normal-cpu"), K("submit-report"), K("check-system-logs")>>,
         <<Step("start", "What is the problem with the process?",
                <<Answer(K("It's not starting"), JStr(K("not-starting")), "Play"),
                  Answer(K("It's running slow"), JStr(K("running-slow")), "Gauge"),
                  Answer(K("It crashed"), JStr(K("crashed")), "XMarkCircle")>>),
           Step("not-starting", "Have you checked the logs for startup errors?",
                <<Answer(K("Yes, there are errors"), JStr(K("log-errors")), "Document"),
                  Answer(K("No, where are the logs?"), JStr(K("find-logs")), "QuestionMark"),
                  Answer(K("There are no logs at all"), JStr(K("no-logs")), "ExclamationMark")>>),
           Step("running-slow", "Is the CPU usage high?",
                <<Answer(K("Yes, CPU is at 100%"), JStr(K("high-cpu")), "ComputerChip"),
                  Answer(K("No, CPU is normal"), JStr(K("normal-cpu")), "Leaf")>>),
           Step("crashed", "Was there a crash report generated?",
                <<Answer(K("Yes, I have the report"), JStr(K("submit-report")), "Upload"),
                  Answer(K("No, it just disappeared"), JStr(K("check-system-logs")), "Terminal")>>),
           Leaf("log-errors", "Common errors include 'Permission Denied' or 'Port in Use'.",
                <<"Solution: ", "Check file permissions or kill the process on that port.">>,
                "Wrench"),
           Leaf("find-logs", "Logs are usually in /var/log/ or the application's own directory.",
                K("Okay, I'll check there."), "Check"),
           Leaf("no-logs", "This might indicate a problem with file permissions for the log directory.",
                <<"Solution: ", "Verify the process has write access to its log location.">>,
                "Wrench"),
           Leaf("high-cpu", "This could be an infinite loop or heavy processing.",
                <<"Solution: ", "Use a profiler to inspect the process.">>, "Wrench"),
           Leaf("normal-cpu", "The bottleneck might be I/O (disk or network).",
                <<"Solution: ", "Check disk activity and network requests.">>, "Wrench"),
           Leaf("submit-report", "Please submit the crash report to the development team.",
                K("Done!"), "Check"),
           Leaf("check-system-logs", "Check the main system logs for any related error messages.",
                K("Okay, I'll check system logs."), "Check")>>)

\* ------------------------------------------------------------------------
\* Values a user can store or submit
\* ------------------------------------------------------------------------
\* the object {} : the initial React state, a graph without "start"
EmptyObject == JObj(<<>>, <<>>)

\* {"start": {"id": "start", "question": "Q"}} : a step without answers
NoAnswersGraph ==
    JObj(<<K("start")>>,
         <<JObj(<<K("id"), K("question")>>, <<JStr(K("start")), JStr(K("Q"))>>)>>)

\* a custom graph: a cycle start -> again -> start, a dangling nextId, a
\* terminal answer with the tag in the middle of its text, one without
\* nextId and icon, and one whose nextId is the empty string and whose text
\* starts with the tag twice
CustomGraph ==
    JObj(<<K("start"), K("again")>>,
         <<Step("start", "Is it plugged in?",
                <<Answer(K("Not sure"), JStr(K("again")), "Play"),
                  Answer(K("Yes"), JStr(K("missing")), "NoSuchIcon"),
                  Answer(<<"Try the ", "Solution: ", "reboot">>, JNull, "Wrench")>>),
           Step("again", "Check again",
                <<Answer(K("Back to start"), JStr(K("start")), "Check"),
                  JObj(<<K("text")>>, <<JStr(<<"Solution: ", "Plug it in">>)>>),
                  Answer(<<"Solution: ", "Solution: ", "twice">>, JStr(<<>>), "Check")>>)>>)

Values == {JNull, EmptyObject, NoAnswersGraph, CustomGraph, initialTroubleshootingData}

\* ------------------------------------------------------------------------
\* JSON text: tokens, JSON.stringify and JSON.parse
\* ------------------------------------------------------------------------
\* a JSON text is a sequence of tokens: punctuation, null, a string literal
\* (s holds the string), a line break followed by n spaces, a single space,
\* or a token that is no JSON
Tok(p) == [p |-> p, s |-> <<>>, n |-> 0]
StrTok(s) == [p |-> "str", s |-> s, n |-> 0]
Newline(indent, level) ==
    IF indent = 0 THEN <<>> ELSE <<[p |-> "nl", s |-> <<>>, n |-> indent * level]>>
Space(indent) == IF indent = 0 THEN <<>> ELSE <<[p |-> "sp", s |-> <<>>, n |-> 1]>>
Comma(first) == IF first THEN <<>> ELSE <<Tok(",")>>

RECURSIVE SerializeValue(_, _, _)
RECURSIVE SerializeElems(_, _, _, _)
RECURSIVE SerializeMembers(_, _, _, _, _)

\* the elements of an array from the i-th on; undefined is written as null
SerializeElems(a, i, indent, level) ==
    IF i > Len(a) THEN <<>>
    ELSE Comma(i = 1) \o Newline(indent, level)
         \o (IF a[i].t = "undef" THEN <<Tok("null")>>
             ELSE SerializeValue(a[i], indent, level))
         \o SerializeElems(a, i + 1, indent, level)

\* a writer that leaves out the properties whose value is null as well
SerializeMembers_NullOmitted(v, i, first, indent, level) ==
    IF i > Len(v.k) THEN <<>>
    ELSE IF v.a[i].t \in {"undef", "null"}
    THEN SerializeMembers(v, i + 1, first, indent, level)
    ELSE Comma(first) \o Newline(indent, level)
         \o <<StrTok(v.k[i]), Tok(":")>> \o Space(indent)
         \o SerializeValue(v.a[i], indent, level)
         \o SerializeMembers(v, i + 1, FALSE, indent, level)

\* the properties of an object from the i-th on; a property whose value is
\* undefined is left out
SerializeMembers(v, i, first, indent, level) ==
    IF i > Len(v.k) THEN <<>>
    ELSE IF v.a[i].t = "undef" THEN SerializeMembers(v, i + 1, first, indent, level)
    ELSE Comma(first) \o Newline(indent, level)
         \o <<StrTok(v.k[i]), Tok(":")>> \o Space(indent)
         \o SerializeValue(v.a[i], indent, level)
         \o SerializeMembers(v, i + 1, FALSE, indent, level)

\* JSON.stringify(v, null, indent) at nesting depth level; the text of
\* undefined is no text
SerializeValue(v, indent, level) ==
    CASE v.t = "null" -> <<Tok("null")>>
      [] v.t = "str" -> <<StrTok(v.s)>>
      [] v.t = "arr" ->
           IF v.a = <<>> THEN <<Tok("["), Tok("]")>>
           ELSE <<Tok("[")>> \o SerializeElems(v.a, 1, indent, level + 1)
                \o Newline(indent, level) \o <<Tok("]")>>
      [] v.t = "obj" ->
           IF \A i \in 1..Len(v.a) : v.a[i].t = "undef" THEN <<Tok("{"), Tok("}")>>
           ELSE <<Tok("{")>> \o SerializeMembers(v, 1, TRUE, indent, level + 1)
                \o Newline(indent, level) \o <<Tok("}")>>
      [] OTHER -> <<>>

\* the result of a parse: the value and the index of the next token, or a
\* SyntaxError
Parsed(v, i) == [ok |-> TRUE, v |-> v, i |-> i]
SyntaxError == [ok |-> FALSE, v |-> JUndef, i |-> 0]

\* the element of a one-element set: the parser binds the result of a
\* nested parse through one, so that it is computed once
Only(S) == CHOOSE x \in S : TRUE

\* white space between tokens is skipped
IsWs(tok) == tok.p \in {"nl", "sp"}
NotWs(tok) == ~IsWs(tok)

At(toks, i, p) == i \in DOMAIN toks /\ toks[i].p = p

\* the object of the properties ms in the order they were read: a repeated
\* key keeps its first place and takes its last value
FirstOf(ms, n) == \A m \in 1..(n - 1) : ms[m].key # ms[n].key
LastOf(ms, n) == \A m \in (n + 1)..Len(ms) : ms[m].key # ms[n].key
FirstsOf(ms) == SelectSeq([n \in 1..Len(ms) |-> n], LAMBDA n : FirstOf(ms, n))
LastValue(ms, key) == ms[CHOOSE n \in 1..Len(ms) : ms[n].key = key /\ LastOf(ms, n)].v
ObjectOf(members) ==
    Only({Only({JObj([n \in 1..Len(firsts) |-> ms[firsts[n]].key],
                     [n \in 1..Len(firsts) |-> LastValue(ms, ms[firsts[n]].key)])
                : firsts \in {FirstsOf(ms)}})
          : ms \in {members}})

RECURSIVE ParseValue(_, _)
RECURSIVE ParseElems(_, _, _)
RECURSIVE ParseMembers(_, _, _)

\* after the element r of an array: "," and the next element, or "]"
ElemsCont(toks, r, elems) ==
    CASE ~r.ok -> SyntaxError
      [] At(toks, r.i, ",") -> ParseElems(toks, r.i + 1, elems)
      [] At(toks, r.i, "]") -> Parsed(JArr(elems), r.i + 1)
      [] OTHER -> SyntaxError

\* the elements of an array after "[" or ","
ParseElems(toks, i, elems) ==
    Only({ElemsCont(toks, r, Append(elems, r.v)) : r \in {ParseValue(toks, i)}})

\* after the value r of a property: "," and the next property, or "}"
MembersCont(toks, r, ms) ==
    CASE ~r.ok -> SyntaxError
      [] At(toks, r.i, ",") -> ParseMembers(toks, r.i + 1, ms)
      [] At(toks, r.i, "}") -> Parsed(ObjectOf(ms), r.i + 1)
      [] OTHER -> SyntaxError

\* the properties of an object after "{" or ",": a key, ":" and a value
ParseMembers(toks, i, ms) ==
    IF ~At(toks, i, "str") \/ ~At(toks, i + 1, ":") THEN SyntaxError
    ELSE Only({MembersCont(toks, r, Append(ms, [key |-> toks[i].s, v |-> r.v]))
               : r \in {ParseValue(toks, i + 2)}})

\* the JSON value whose first token is the i-th
ParseValue(toks, i) ==
    CASE At(toks, i, "null") -> Parsed(JNull, i + 1)
      [] At(toks, i, "str") -> Parsed(JStr(toks[i].s), i + 1)
      [] At(toks, i, "[") ->
           IF At(toks, i + 1, "]") THEN Parsed(JArr(<<>>), i + 2)
           ELSE ParseElems(toks, i + 1, <<>>)
      [] At(toks, i, "{") ->
           IF At(toks, i + 1, "}") THEN Parsed(JObj(<<>>, <<>>), i + 2)
           ELSE ParseMembers(toks, i + 1, <<>>)
      [] OTHER -> SyntaxError

\* a whole text: one value with nothing after it
ParseTokens(toks) ==
    Only({IF r.ok /\ r.i = Len(toks) + 1 THEN r ELSE SyntaxError
          : r \in {ParseValue(toks, 1)}})
ParseText(text) == Only({ParseTokens(toks) : toks \in {SelectSeq(text, NotWs)}})

\* ------------------------------------------------------------------------
\* Texts, JSON.parse and JSON.stringify
\* ------------------------------------------------------------------------
\* A text is the JSON text of a value in a layout (compact, or indented by
\* two spaces), the empty string, or text that is not JSON.  NoText is the
\* absent value (undefined).  A JSON text is held as the value and the layout
\* it was written from; Tokens gives what it consists of.
NoText == [k |-> "absent", v |-> JUndef, ws |-> "none"]
EmptyText == [k |-> "empty", v |-> JUndef, ws |-> "none"]
BadText == [k |-> "bad", v |-> JUndef, ws |-> "none"]
JsonText(v, ws) == [k |-> "json", v |-> v, ws |-> ws]

\* the tokens a text consists of
Indent(text) == IF text.ws = "pretty" THEN 2 ELSE 0
Tokens(text) ==
    CASE text.k = "json" -> SerializeValue(text.v, Indent(text), 0)
      [] text.k = "bad" -> <<Tok("bad")>>
      [] OTHER -> <<>>

\* JSON.parse(text) throws a SyntaxError
ParseThrows(text) == ~ParseText(Tokens(text)).ok
\* JSON.parse(text) when it does not throw
JSONparse(text) == ParseText(Tokens(text)).v
\* JSON.stringify(v) and JSON.stringify(v, null, 2)
JSONstringify(v) == JsonText(v, "compact")
JSONstringifyPretty(v) == JsonText(v, "pretty")

\* truthiness of what LocalStorage.getItem returned
TextTruthy(text) == text.k \notin {"absent", "empty"}

\* texts a user can type into the editor
EditorTexts == {EmptyText, BadText} \cup {JsonText(v, "pretty") : v \in Values}
\* what the slot can hold when a session starts
SlotValues == {NoText, EmptyText, BadText} \cup {JsonText(v, "compact") : v \in Values}

\* ------------------------------------------------------------------------
\* Rendering
\* ------------------------------------------------------------------------
\* names of the host's Icon table that the program and the graphs use
IconNames ==
    {"Play", "Gauge", "XMarkCircle", "Document", "QuestionMark", "ExclamationMark",
     "ComputerChip", "Leaf", "Upload", "Terminal", "Wrench", "Check",
     "ChevronRight", "List", "Pencil", "SaveDocument", "CheckCircle"}

\* a view is [kind, question, items]; kind "raise" stands for a render that
\* threw a TypeError
View(kind, question, items) == [kind |-> kind, question |-> question, items |-> items]
RaiseView == View("raise", JUndef, <<>>)
LoadingView == View("loading", JUndef, <<>>)
EndOfFlowView == View("end-of-flow", JUndef, <<>>)
InvalidFlowView == View("invalid-flow", JUndef, <<>>)
EditorFormView == View("editor", JUndef, <<>>)

\* answer.icon ? (Icon[answer.icon] || Icon.ChevronRight) : Icon.ChevronRight
IconFor(answer) ==
    LET icon == Get(answer, K("icon")) IN
    IF Truthy(icon) /\ icon.t = "str" /\ Len(icon.s) = 1 /\ icon.s[1] \in IconNames
    THEN icon.s[1]
    ELSE "ChevronRight"

\* a replace that removes the tag wherever it occurs
StripSolution_Everywhere(s) == SelectSeq(s, LAMBDA tok : tok # "Solution: ")

\* text.replace(/^Solution: /, "")
StripSolution(s) == IF s # <<>> /\ s[1] = "Solution: " THEN Tail(s) ELSE s

\* rendering the List.Item of an answer throws: answer.icon of null, or
\* answer.text.replace of a text that is not a string
AnswerRaises(answer) ==
    \/ ~CanRead(answer)
    \/ /\ ~Truthy(Get(answer, K("nextId")))
       /\ Get(answer, K("text")).t # "str"

\* an answer panel that tests nextId against null instead of its truthiness
AnswerItem_NotNull(answer) ==
    LET nextId == Get(answer, K("nextId")) IN
    IF nextId.t # "null"
    THEN [title |-> Get(answer, K("text")), icon |-> IconFor(answer),
          action |-> "push", target |-> nextId.s, content |-> <<>>]
    ELSE [title |-> Get(answer, K("text")), icon |-> IconFor(answer),
          action |-> "copy", target |-> <<>>,
          content |-> StripSolution(Get(answer, K("text")).s)]

\* the List.Item of an answer: title, icon and the action of its panel
AnswerItem(answer) ==
    LET nextId == Get(answer, K("nextId")) IN
    IF Truthy(nextId)
    THEN [title |-> Get(answer, K("text")), icon |-> IconFor(answer),
          action |-> "push", target |-> nextId.s, content |-> <<>>]
    ELSE [title |-> Get(answer, K("text")), icon |-> IconFor(answer),
          action |-> "copy", target |-> <<>>,
          content |-> StripSolution(Get(answer, K("text")).s)]

\* TroubleshootingStep without the test of currentStep: the answers of a
\* missing step are read
TroubleshootingStep_NoMissingCheck(stepId, data, loading) ==
    IF ~CanRead(data) THEN RaiseView
    ELSE LET currentStep == Get(data, stepId) IN
         IF loading THEN LoadingView
         ELSE LET answers == Get(currentStep, K("answers")) IN
              IF answers.t # "arr" THEN RaiseView
              ELSE IF \E i \in 1..Len(answers.a) : AnswerRaises(answers.a[i]) THEN RaiseView
              ELSE View("step", Get(currentStep, K("question")),
                        [i \in 1..Len(answers.a) |-> AnswerItem(answers.a[i])])

\* the component TroubleshootingStep
TroubleshootingStep(stepId, data, loading) ==
    IF ~CanRead(data) THEN RaiseView
    ELSE LET currentStep == Get(data, stepId) IN
         IF loading THEN LoadingView
         ELSE IF ~Truthy(currentStep) THEN EndOfFlowView
         ELSE LET answers == Get(currentStep, K("answers")) IN
              IF answers.t # "arr" THEN RaiseView
              ELSE IF \E i \in 1..Len(answers.a) : AnswerRaises(answers.a[i]) THEN RaiseView
              ELSE View("step", Get(currentStep, K("question")),
                        [i \in 1..Len(answers.a) |-> AnswerItem(answers.a[i])])

\* FlowView without the test of the start step
FlowView_NoStartCheck(loading, data) ==
    IF ~CanRead(data) THEN RaiseView
    ELSE TroubleshootingStep(K("start"), data, loading)

\* the component FlowView
FlowView(loading, data) ==
    IF ~CanRead(data) THEN RaiseView
    ELSE IF ~Truthy(Get(data, K("start"))) /\ ~loading THEN InvalidFlowView
    ELSE TroubleshootingStep(K("start"), data, loading)

\* ------------------------------------------------------------------------
\* State
\* ------------------------------------------------------------------------
VARIABLES
    slot,                 \* LocalStorage item "troubleshootingData" (NoText: none)
    activeTab,            \* useState("flow"): "flow" or "editor"
    isLoading,            \* useState(true)
    troubleshootingData,  \* useState({}): the in-memory graph
    editorText,           \* text of the Form.TextArea while EditorView is mounted
    stack,                \* step identifiers of the pushed frames, oldest first
    stackData,            \* the troubleshootingData prop the pushed frames hold
    inflight,             \* LocalStorage requests awaiting their continuation, oldest first
    toasts,               \* showToast calls of the session, oldest first
    copied,               \* content the step just taken put on the clipboard (<<>>: none)
    submits               \* editor submissions of the session

vars == <<slot, activeTab, isLoading, troubleshootingData, editorText, stack,
          stackData, inflight, toasts, copied, submits>>

\* a request in flight: st is "sent" until the host has served it, then "ok"
\* or "err"; text is what getItem returned or what setItem writes; newData
\* is the argument of handleSave, prior the in-memory graph and loading the
\* loading flag when handleSave was called
GetRequest ==
    [op |-> "get", st |-> "sent", text |-> NoText, newData |-> JUndef,
     prior |-> JUndef, loading |-> TRUE]
SetRequest(text, newData, prior, loading) ==
    [op |-> "set", st |-> "sent", text |-> text, newData |-> newData,
     prior |-> prior, loading |-> loading]

Toast(style, title) == [style |-> style, title |-> title]
LoadFailedToast == Toast("Failure", "Could not load custom flow")
InvalidJsonToast == Toast("Failure", "Invalid JSON")
FlowSavedToast == Toast("Success", "Flow Saved!")

\* ------------------------------------------------------------------------
\* What is on screen
\* ------------------------------------------------------------------------
\* the render of Command
RootView ==
    IF activeTab = "editor" THEN EditorFormView
    ELSE FlowView(isLoading, troubleshootingData)

\* an engine that tracks the visited steps and ends the flow at a step that
\* was seen before
FrameView_Visited(i) ==
    IF stack[i] = K("start") \/ \E j \in 1..(i - 1) : stack[j] = stack[i]
    THEN EndOfFlowView
    ELSE TroubleshootingStep(stack[i], stackData, FALSE)

\* the render of the i-th pushed frame (pushed with isLoading={false})
FrameView(i) == TroubleshootingStep(stack[i], stackData, FALSE)

\* the view the user sees: the top of the navigation stack
VisibleView == IF stack # <<>> THEN FrameView(Len(stack)) ELSE RootView

\* a render threw: the command has crashed
Crashed ==
    \/ RootView.kind = "raise"
    \/ \E i \in 1..Len(stack) : FrameView(i).kind = "raise"

\* ------------------------------------------------------------------------
\* Initial state: Command is mounted and its effect has called getItem
\* ------------------------------------------------------------------------
Mounted(s) ==
    /\ slot = s
    /\ activeTab = "flow"
    /\ isLoading = TRUE
    /\ troubleshootingData = EmptyObject
    /\ editorText = NoText
    /\ stack = <<>>
    /\ stackData = EmptyObject
    /\ inflight = <<GetRequest>>
    /\ toasts = <<>>
    /\ copied = <<>>
    /\ submits = 0

Init == \E s \in SlotValues : Mounted(s)

\* ------------------------------------------------------------------------
\* LocalStorage (the host): requests are served in the order they were sent
\* ------------------------------------------------------------------------
\* A request is served by the host in one step (HostGet, HostSet) and the
\* function that awaits it continues in a later step (loadData, handleSave);
\* continuations run in the order of the requests.  User events may fall
\* between any two of these steps.
HasSent == \E i \in 1..Len(inflight) : inflight[i].st = "sent"
FirstSent == CHOOSE i \in 1..Len(inflight) :
                 /\ inflight[i].st = "sent"
                 /\ \A j \in 1..(i - 1) : inflight[j].st # "sent"

\* a setItem that writes even when it reports a failure
SlotAfterSet_Torn(old, text, ok) == text

\* the slot after the host has handled setItem(text)
SlotAfterSet(old, text, ok) == IF ok THEN text ELSE old

\* getItem resolves with the content of the slot, or rejects
HostGet(ok) ==
    /\ HasSent
    /\ inflight[FirstSent].op = "get"
    /\ inflight' = [inflight EXCEPT ![FirstSent] =
                        [@ EXCEPT !.st = IF ok THEN "ok" ELSE "err",
                                  !.text = IF ok THEN slot ELSE NoText]]
    /\ copied' = <<>>
    /\ UNCHANGED <<slot, activeTab, isLoading, troubleshootingData, editorText,
                   stack, stackData, toasts, submits>>

\* setItem replaces the content of the slot and resolves, or rejects and
\* leaves the slot alone
HostSet(ok) ==
    /\ HasSent
    /\ inflight[FirstSent].op = "set"
    /\ slot' = SlotAfterSet(slot, inflight[FirstSent].text, ok)
    /\ inflight' = [inflight EXCEPT ![FirstSent] =
                        [@ EXCEPT !.st = IF ok THEN "ok" ELSE "err"]]
    /\ copied' = <<>>
    /\ UNCHANGED <<activeTab, isLoading, troubleshootingData, editorText,
                   stack, stackData, toasts, submits>>

\* ------------------------------------------------------------------------
\* loadData
\* ------------------------------------------------------------------------
\* JSON.parse(storedData) in the try block of loadData, where it is reached
StoredParse(req) ==
    IF req.st = "ok" /\ TextTruthy(req.text) THEN ParseText(Tokens(req.text))
    ELSE SyntaxError

\* loadData takes the catch branch: getItem rejected or JSON.parse threw
LoadCatches(req, parsed) ==
    \/ req.st = "err"
    \/ TextTruthy(req.text) /\ ~parsed.ok

\* loadData without the else branch: an absent value installs nothing
LoadedData_NoDefault(req, parsed) ==
    IF LoadCatches(req, parsed) THEN initialTroubleshootingData
    ELSE IF TextTruthy(req.text) THEN parsed.v
    ELSE EmptyObject

\* the graph loadData installs
LoadedData(req, parsed) ==
    IF LoadCatches(req, parsed) THEN initialTroubleshootingData
    ELSE IF TextTruthy(req.text) THEN parsed.v
    ELSE initialTroubleshootingData

\* loadData with a catch branch that only logs
LoadToasts_Silent(req, parsed) == <<>>

LoadToasts(req, parsed) ==
    IF LoadCatches(req, parsed) THEN <<LoadFailedToast>> ELSE <<>>

\* loadData without the finally block: loading ends only on the try path
LoadingAfterLoad_NoFinally(req, parsed) == LoadCatches(req, parsed)

\* the loading flag after loadData: the finally block always clears it
LoadingAfterLoad(req, parsed) == FALSE

\* the continuation of loadData after await getItem
loadData ==
    /\ inflight # <<>>
    /\ inflight[1].op = "get"
    /\ inflight[1].st # "sent"
    /\ ~Crashed
    /\ inflight' = Tail(inflight)
    /\ copied' = <<>>
    /\ UNCHANGED <<slot, activeTab, editorText, stack, stackData, submits>>
    /\ \E parsed \in {StoredParse(inflight[1])} :
          /\ isLoading' = LoadingAfterLoad(inflight[1], parsed)
          /\ troubleshootingData' = LoadedData(inflight[1], parsed)
          /\ toasts' = toasts \o LoadToasts(inflight[1], parsed)

\* ------------------------------------------------------------------------
\* handleSave
\* ------------------------------------------------------------------------
\* the part of handleSave before its first await: the state is set and
\* setItem is called
handleSaveCall(newData) ==
    /\ troubleshootingData' = newData
    /\ inflight' = Append(inflight, SetRequest(JSONstringify(newData), newData,
                                               troubleshootingData, isLoading))

\* the toasts handleSave shows once setItem has settled: a rejection leaves
\* handleSave at the await, so nothing is shown
SaveToasts(req) == IF req.st = "ok" THEN <<FlowSavedToast>> ELSE <<>>

\* the tab after setItem has settled
TabAfterSave(req, tab) == IF req.st = "ok" THEN "flow" ELSE tab

\* the continuation of handleSave after await setItem (and await showToast)
handleSave ==
    /\ inflight # <<>>
    /\ inflight[1].op = "set"
    /\ inflight[1].st # "sent"
    /\ ~Crashed
    /\ toasts' = toasts \o SaveToasts(inflight[1])
    /\ activeTab' = TabAfterSave(inflight[1], activeTab)
    /\ editorText' = IF activeTab' = "editor" THEN editorText ELSE NoText
    /\ inflight' = Tail(inflight)
    /\ copied' = <<>>
    /\ UNCHANGED <<slot, isLoading, troubleshootingData, stack, stackData, submits>>

\* ------------------------------------------------------------------------
\* EditorView
\* ------------------------------------------------------------------------
\* the editor form is what the user sees
EditorVisible == VisibleView.kind = "editor" /\ ~Crashed

\* the user types into the text area
EditText(t) ==
    /\ EditorVisible
    /\ t # editorText
    /\ editorText' = t
    /\ copied' = <<>>
    /\ UNCHANGED <<slot, activeTab, isLoading, troubleshootingData, stack,
                   stackData, inflight, toasts, submits>>

\* pop() of useNavigation
Pop(st) == IF st = <<>> THEN st ELSE SubSeq(st, 1, Len(st) - 1)

\* handleSubmit without the try block: onSave is always reached
SubmitSaves_Unchecked(text) == TRUE

\* handleSubmit reaches onSave
SubmitSaves(text) == ~ParseThrows(text)

\* the toasts of handleSubmit
SubmitToasts(text) == IF ParseThrows(text) THEN <<InvalidJsonToast>> ELSE <<>>

\* Action.SubmitForm
handleSubmit ==
    /\ EditorVisible
    /\ submits < MaxSubmits
    /\ submits' = submits + 1
    /\ toasts' = toasts \o SubmitToasts(editorText)
    /\ IF SubmitSaves(editorText)
       THEN /\ handleSaveCall(JSONparse(editorText))
            /\ stack' = Pop(stack)
       ELSE UNCHANGED <<troubleshootingData, inflight, stack>>
    /\ copied' = <<>>
    /\ UNCHANGED <<slot, activeTab, isLoading, editorText, stackData>>

\* ------------------------------------------------------------------------
\* The List views: the dropdown, the answers, back-navigation
\* ------------------------------------------------------------------------
\* a List with the searchBarAccessory is what the user sees
ListVisible == ~Crashed /\ VisibleView.kind \in {"loading", "step", "end-of-flow", "invalid-flow"}

\* the dropdown's onChange={setActiveTab}; EditorView mounts with
\* defaultValue={JSON.stringify(currentData, null, 2)}
setActiveTab(tab) ==
    /\ ListVisible
    /\ tab # activeTab
    /\ activeTab' = tab
    /\ editorText' = IF tab = "editor" THEN JSONstringifyPretty(troubleshootingData) ELSE NoText
    /\ copied' = <<>>
    /\ UNCHANGED <<slot, isLoading, troubleshootingData, stack, stackData,
                   inflight, toasts, submits>>

\* Action.Push of the i-th answer of the visible step
Push(i) ==
    /\ ~Crashed
    /\ VisibleView.kind = "step"
    /\ i \in 1..Len(VisibleView.items)
    /\ VisibleView.items[i].action = "push"
    /\ Len(stack) < MaxDepth
    /\ stack' = Append(stack, VisibleView.items[i].target)
    /\ stackData' = IF stack = <<>> THEN troubleshootingData ELSE stackData
    /\ copied' = <<>>
    /\ UNCHANGED <<slot, activeTab, isLoading, troubleshootingData, editorText,
                   inflight, toasts, submits>>

\* Action.CopyToClipboard of the i-th answer of the visible step
CopyToClipboard(i) ==
    /\ ~Crashed
    /\ VisibleView.kind = "step"
    /\ i \in 1..Len(VisibleView.items)
    /\ VisibleView.items[i].action = "copy"
    /\ copied' = VisibleView.items[i].content
    /\ UNCHANGED <<slot, activeTab, isLoading, troubleshootingData, editorText,
                   stack, stackData, inflight, toasts, submits>>

\* a back-navigation that mounts the command again and installs what the
\* slot holds
Back_Reload ==
    /\ stack # <<>>
    /\ ~Crashed
    /\ stack' = SubSeq(stack, 1, Len(stack) - 1)
    /\ stackData' = IF stack' = <<>> THEN EmptyObject ELSE stackData
    /\ LET req == [GetRequest EXCEPT !.st = "ok", !.text = slot] IN
       troubleshootingData' = LoadedData(req, StoredParse(req))
    /\ copied' = <<>>
    /\ UNCHANGED <<slot, activeTab, isLoading, editorText, inflight, toasts, submits>>

\* the host's back-navigation out of a pushed frame
Back ==
    /\ stack # <<>>
    /\ ~Crashed
    /\ stack' = Pop(stack)
    /\ stackData' = IF stack' = <<>> THEN EmptyObject ELSE stackData
    /\ copied' = <<>>
    /\ UNCHANGED <<slot, activeTab, isLoading, troubleshootingData, editorText,
                   inflight, toasts, submits>>

\* ------------------------------------------------------------------------
\* A later session: the command is closed and opened again
\* ------------------------------------------------------------------------
Restart ==
    /\ slot' = slot
    /\ activeTab' = "flow"
    /\ isLoading' = TRUE
    /\ troubleshootingData' = EmptyObject
    /\ editorText' = NoText
    /\ stack' = <<>>
    /\ stackData' = EmptyObject
    /\ inflight' = <<GetRequest>>
    /\ toasts' = <<>>
    /\ copied' = <<>>
    /\ submits' = 0

\* ------------------------------------------------------------------------
\* Specification
\* ------------------------------------------------------------------------
Next ==
    \/ \E ok \in BOOLEAN : HostGet(ok)
    \/ \E ok \in BOOLEAN : HostSet(ok)
    \/ loadData
    \/ handleSave
    \/ \E t \in EditorTexts : EditText(t)
    \/ handleSubmit
    \/ \E tab \in {"flow", "editor"} : setActiveTab(tab)
    \/ \E i \in DOMAIN VisibleView.items : Push(i)
    \/ \E i \in DOMAIN VisibleView.items : CopyToClipboard(i)
    \/ Back
    \/ Restart

Spec == Init /\ [][Next]_vars

\* One session: the command is not closed.  LocalStorage answers getItem
\* and the event loop runs the continuation of a settled await.
NextSession ==
    \/ \E ok \in BOOLEAN : HostGet(ok)
    \/ \E ok \in BOOLEAN : HostSet(ok)
    \/ loadData
    \/ handleSave
    \/ \E t \in EditorTexts : EditText(t)
    \/ handleSubmit
    \/ \E tab \in {"flow", "editor"} : setActiveTab(tab)
    \/ \E i \in DOMAIN VisibleView.items : Push(i)
    \/ \E i \in DOMAIN VisibleView.items : CopyToClipboard(i)
    \/ Back

SessionSpec ==
    /\ Init
    /\ [][NextSession]_vars
    /\ WF_vars(\E ok \in BOOLEAN : HostGet(ok))
    /\ WF_vars(loadData)

\* ------------------------------------------------------------------------
\* Properties
\* ------------------------------------------------------------------------
\* the save requests in flight
SaveRequests == {i \in 1..Len(inflight) : inflight[i].op = "set"}

\* the graph a load of a later session installs when the slot holds s
LaterLoad(s) ==
    LET req == [GetRequest EXCEPT !.st = "ok", !.text = s] IN
    LoadedData(req, StoredParse(req))

\* C1: when the write of a save has failed, the in-memory graph is the graph
\* that was in memory before handleSave was called.
C1_FailedSaveKeepsPrior ==
    \A i \in SaveRequests :
        inflight[i].st = "err" => troubleshootingData = inflight[i].prior

\* C2: the in-memory graph changes to the candidate of a save only when the
\* write of that save has settled: no step installs a candidate whose write
\* is still in flight.
C2_SwapAfterWrite ==
    [][\A i \in 1..Len(inflight') :
          (/\ inflight'[i].op = "set"
           /\ troubleshootingData' # troubleshootingData
           /\ troubleshootingData' = inflight'[i].newData)
          => inflight'[i].st # "sent"]_vars

\* C3: when handleSave continues after its write, it shows exactly one toast
\* and the toast's style is Success after a successful write and Failure
\* after a failed one.
C3_SaveNotifies ==
    [][handleSave =>
          /\ Len(toasts') = Len(toasts) + 1
          /\ toasts'[Len(toasts')].style =
                 (IF inflight[1].st = "ok" THEN "Success" ELSE "Failure")]_vars

\* C4: when the write of save(candidate) succeeds, the slot holds the
\* serialization of candidate and nothing else, and the in-memory graph is
\* candidate.
C4_SuccessfulSaveInstalls ==
    [][HostSet(TRUE) =>
          /\ slot' = JSONstringify(inflight[FirstSent].newData)
          /\ troubleshootingData' = inflight[FirstSent].newData]_vars

C6_AbsentLoadsDefault ==
    [][(loadData /\ inflight[1].st = "ok" /\ inflight[1].text = NoText) =>
          /\ troubleshootingData' = initialTroubleshootingData
          /\ toasts' = toasts]_vars

\* C6 witness: the load of a session with an absent slot has finished.
C6_Witness ==
    /\ slot = NoText
    /\ ~isLoading
    /\ inflight = <<>>
    /\ toasts = <<>>
    /\ troubleshootingData = initialTroubleshootingData

\* the text getItem returned cannot be parsed
Unparseable(req) == req.st = "ok" /\ req.text # NoText /\ ParseThrows(req.text)

\* C7 as claimed: when the slot held text that cannot be parsed, loadData
\* installs the default graph, shows exactly one warning and ends loading.
C7_UnparseableWarns ==
    [][(loadData /\ Unparseable(inflight[1])) =>
          /\ troubleshootingData' = initialTroubleshootingData
          /\ toasts' = Append(toasts, LoadFailedToast)
          /\ isLoading' = FALSE]_vars

\* C7 as amended: when the slot held non-empty text that cannot be parsed,
\* loadData installs the default graph, shows exactly one warning and ends
\* loading; the empty string is handled like an absent value: the default
\* graph is installed, loading ends and no warning is shown.
C7_NonEmptyUnparseableWarns ==
    [][(loadData /\ Unparseable(inflight[1])) =>
          /\ troubleshootingData' = initialTroubleshootingData
          /\ isLoading' = FALSE
          /\ toasts' = IF inflight[1].text = EmptyText
                       THEN toasts
                       ELSE Append(toasts, LoadFailedToast)]_vars

\* C7 witness: the load of a session whose slot holds unparseable, non-empty
\* text has finished with the warning.
C7_Witness ==
    /\ slot = BadText
    /\ ~isLoading
    /\ toasts = <<LoadFailedToast>>
    /\ troubleshootingData = initialTroubleshootingData

\* C8: whatever parsed value was loaded or submitted, the render of the
\* traversal view is a loading, step, end-of-flow or invalid-flow view.
C8_RenderNeverRaises ==
    activeTab = "flow" =>
        RootView.kind \in {"loading", "step", "end-of-flow", "invalid-flow"}

\* C9: a submission whose text does not parse leaves the in-memory graph and
\* the slot alone, calls no save, shows exactly one failure toast and keeps
\* the editor open with its text.
C9_InvalidSubmitDiscarded ==
    [][(handleSubmit /\ ParseThrows(editorText)) =>
          /\ troubleshootingData' = troubleshootingData
          /\ slot' = slot
          /\ inflight' = inflight
          /\ toasts' = Append(toasts, InvalidJsonToast)
          /\ activeTab' = "editor"
          /\ stack' = stack
          /\ editorText' = editorText]_vars

\* C9 witness: an unparseable text has been submitted and the editor is
\* still on screen.
C9_Witness ==
    /\ submits > 0
    /\ ParseThrows(editorText)
    /\ VisibleView.kind = "editor"
    /\ toasts # <<>>
    /\ toasts[Len(toasts)] = InvalidJsonToast

\* C10: when a save has succeeded and handleSave continues, the user is
\* shown the root traversal view, and it is rendered from the saved graph.
C10_SavedGraphShown ==
    [][(handleSave /\ inflight[1].st = "ok") =>
          /\ activeTab' = "flow"
          /\ stack' = <<>>
          /\ troubleshootingData' = inflight[1].newData]_vars

\* the graph, the step identifier and the answers behind the visible view
VisibleData == IF stack # <<>> THEN stackData ELSE troubleshootingData
VisibleStepId == IF stack # <<>> THEN stack[Len(stack)] ELSE K("start")
VisibleAnswers == Get(Get(VisibleData, VisibleStepId), K("answers")).a

\* step identifiers to look up in every graph
ProbeIds ==
    {K("start"), K("again"), K("missing"), K("does-not-exist"), K("log-errors"), <<>>}

PanelsFollowNextId(present(_)) ==
    LET view == VisibleView
        answers == VisibleAnswers
    IN  view.kind = "step" =>
            \A i \in 1..Len(view.items) :
                LET nextId == Get(answers[i], K("nextId")) IN
                IF present(nextId)
                THEN /\ view.items[i].action = "push"
                     /\ view.items[i].target = nextId.s
                ELSE view.items[i].action = "copy"

\* selecting an answer that pushes adds one frame for exactly its nextId;
\* selecting an answer that copies adds none (a step that grows the stack
\* is a Push, a step that puts text on the clipboard a CopyToClipboard)
SelectionFollowsPanel ==
    /\ Len(stack') > Len(stack) =>
           \A i \in DOMAIN VisibleView.items :
               Push(i) => stack' = Append(stack, Get(VisibleAnswers[i], K("nextId")).s)
    /\ copied' # <<>> =>
           \A i \in DOMAIN VisibleView.items :
               CopyToClipboard(i) =>
                   /\ stack' = stack
                   /\ ~Truthy(Get(VisibleAnswers[i], K("nextId")))

IsString(v) == v.t = "str"
IsNonEmptyString(v) == v.t = "str" /\ v.s # <<>>

\* C12 as claimed: an answer whose nextId is a string (any string) pushes a
\* frame for exactly that nextId; an answer without nextId exposes its text
\* for copy and pushes no frame.
C12_StringNextIdPushes ==
    [](PanelsFollowNextId(IsString)) /\ [][SelectionFollowsPanel]_vars

\* C12 as amended: an answer whose nextId is a non-empty string pushes a
\* frame for exactly that nextId; an answer whose nextId is absent, null or
\* the empty string exposes its text for copy and pushes no frame.
C12_NonEmptyNextIdPushes ==
    [](PanelsFollowNextId(IsNonEmptyString)) /\ [][SelectionFollowsPanel]_vars

\* C12 witness: a frame was pushed for the nextId of an answer, and the step
\* on screen has a copying answer (whose nextId is the empty string).
C12_Witness ==
    /\ stack = <<K("again")>>
    /\ stackData = CustomGraph
    /\ VisibleView.kind = "step"
    /\ VisibleView.items[1].action = "push"
    /\ VisibleView.items[3].action = "copy"

\* the text with one leading tag removed
WithoutLeadingTag(s) ==
    IF Len(s) > 0 /\ s[1] = "Solution: " THEN SubSeq(s, 2, Len(s)) ELSE s

\* the copyable text of every copying answer of the visible step
CopyContentsStripped ==
    LET view == VisibleView
        answers == VisibleAnswers
    IN  view.kind = "step" =>
            \A i \in 1..Len(view.items) :
                view.items[i].action = "copy" =>
                    view.items[i].content = WithoutLeadingTag(Get(answers[i], K("text")).s)

\* step "log-errors" of the default graph
LogErrorsView == TroubleshootingStep(K("log-errors"), initialTroubleshootingData, FALSE)

\* C13: the text an answer without nextId puts on the clipboard is its text
\* without one leading "Solution: ", verbatim when the text does not start
\* with it; step "log-errors" of the default graph has exactly one answer
\* and its copyable text is the solution without the tag.
C13_CopyStripsLeadingTag ==
    /\ [](/\ CopyContentsStripped
          /\ Len(LogErrorsView.items) = 1
          /\ LogErrorsView.items[1].action = "copy"
          /\ LogErrorsView.items[1].content =
                 <<"Check file permissions or kill the process on that port.">>)
    /\ [][copied' # <<>> =>
             \A i \in DOMAIN VisibleView.items :
                 CopyToClipboard(i) =>
                     copied' = WithoutLeadingTag(Get(VisibleAnswers[i], K("text")).s)]_vars

\* C13 witness: the solution of "log-errors" has been copied.
C13_Witness ==
    /\ stack = <<K("not-starting"), K("log-errors")>>
    /\ stackData = initialTroubleshootingData
    /\ copied = <<"Check file permissions or kill the process on that port.">>

\* C15: when loading has finished and the in-memory graph has no "start"
\* entry, the root traversal view is the invalid-flow view, which has no
\* answers and does not raise, and the dropdown can switch to the editor.
C15_NoStartIsRecoverable ==
    (/\ ~isLoading
     /\ activeTab = "flow"
     /\ CanRead(troubleshootingData)
     /\ Get(troubleshootingData, K("start")) = JUndef)
    => /\ RootView = InvalidFlowView
       /\ RootView.items = <<>>
       /\ ENABLED setActiveTab("editor")

\* C15 witness: a graph without "start" has been loaded and is on screen.
C15_Witness ==
    /\ ~isLoading
    /\ activeTab = "flow"
    /\ stack = <<>>
    /\ troubleshootingData = EmptyObject
    /\ slot = JSONstringify(EmptyObject)
    /\ VisibleView = InvalidFlowView

\* C16: in one session, whatever getItem returns (a parseable value, the
\* absent value, unparseable text) or if it rejects, the loading flag
\* eventually becomes false, and once false it is never true again.
C16_LoadingTransient ==
    /\ <>(~isLoading)
    /\ [][~isLoading => ~isLoading']_vars

\* C16 witness: loading has ended after getItem rejected (the slot is
\* absent, yet the load warned).
C16_Witness ==
    /\ ~isLoading
    /\ slot = NoText
    /\ toasts = <<LoadFailedToast>>
    /\ inflight = <<>>

\* a step of the traversal: an answer is selected (a frame is pushed or a
\* text is copied) or the user navigates back; such a step changes the
\* depth of the stack or puts text on the clipboard
TraversalStep ==
    /\ (Len(stack') # Len(stack) \/ copied' # <<>>)
    /\ \/ \E i \in DOMAIN VisibleView.items : Push(i)
       \/ \E i \in DOMAIN VisibleView.items : CopyToClipboard(i)
       \/ Back

\* C17: pushing a frame, copying a resolution and navigating back leave the
\* in-memory graph and the slot unchanged; the slot changes only by the
\* write of a save, and the graph of a loaded session only by a save.
C17_TraversalLeavesGraph ==
    [][/\ TraversalStep => UNCHANGED <<troubleshootingData, slot>>
       /\ slot' # slot => HostSet(TRUE)
       /\ (~isLoading /\ ~isLoading' /\ troubleshootingData' # troubleshootingData)
              => handleSubmit]_vars

\* C17 witness: the user has pushed a frame and copied a resolution there.
C17_Witness ==
    /\ stack # <<>>
    /\ copied # <<>>
    /\ stackData = troubleshootingData
    /\ slot = JSONstringify(troubleshootingData)

C19_SaveDuringLoadKept ==
    [][(handleSave /\ inflight[1].st = "ok" /\ inflight[1].loading) =>
          /\ troubleshootingData' = inflight[1].newData
          /\ LaterLoad(slot') = troubleshootingData']_vars

\* C20: whenever the editor is opened, its pre-filled text is the
\* serialization of the graph a completed load of the slot yields, so
\* submitting it unchanged saves that graph again.
C20_PrefillIsLoadedGraph ==
    [][(activeTab # "editor" /\ activeTab' = "editor") =>
          /\ ~ParseThrows(editorText')
          /\ JSONparse(editorText') = LaterLoad(slot)]_vars


\* C14: the text the editor is opened with parses back to the graph it was
\* written from: the same step keys and, for each step, the same id,
\* question and answers in the same order with the same text, nextId (null
\* included) and icon; submitting that text hands handleSave that graph.
C14_EditorRoundTrip ==
    /\ [][(activeTab # "editor" /\ activeTab' = "editor") =>
            /\ editorText' = JSONstringifyPretty(troubleshootingData)
            /\ ~ParseThrows(editorText')
            /\ JSONparse(editorText') = troubleshootingData]_vars
    /\ [][(handleSubmit /\ editorText = JSONstringifyPretty(troubleshootingData)) =>
            /\ Len(inflight') = Len(inflight) + 1
            /\ inflight'[Len(inflight')].newData = troubleshootingData
            /\ troubleshootingData' = troubleshootingData]_vars

\* C14 witness: the editor is open on the custom graph (a null nextId, an
\* answer without nextId and icon, an empty nextId); its text is indented
\* and parses back to that graph.
C14_Witness ==
    /\ activeTab = "editor"
    /\ troubleshootingData = CustomGraph
    /\ editorText = JSONstringifyPretty(CustomGraph)
    /\ \E i \in DOMAIN Tokens(editorText) : IsWs(Tokens(editorText)[i])
    /\ JSONparse(editorText) = CustomGraph
    /\ JSONparse(editorText).a[1].a[3].a[3].a[2] = JNull

====
